---- MODULE Spec2Model ----
(***************************************************************************)
(* Translation bot (main_V2.py): the bounded TTL/LRU translation cache,    *)
(* the per-user rate limiter (cooldown + hourly quota) and the on_message  *)
(* pipeline, whose coroutines interleave at every awaited backend call and *)
(* at the awaited reply.                                                   *)
(*                                                                         *)
(* Time is the integer number of seconds read by time.time(); the clock is *)
(* observed at the instants of TimePoints only.                            *)
(***************************************************************************)
EXTENDS Integers, Sequences, FiniteSets, TLC

\* ---------------------------------------------------------------- constants
COOLDOWN_SECONDS == 30

\* MAX_TRANSLATIONS_PER_HOUR is read from the environment (default '30');
\* the model runs the bot configured with a small quota.
MAX_TRANSLATIONS_PER_HOUR == 2

HOUR_SECONDS == 3600

CACHE_MAX_SIZE == 2000

CACHE_TTL_SECONDS == 3600

\* bot_start_time = time.time(): the clock reading when the process starts.
bot_start_time == 100

\* ------------------------------------------------------------------- bounds
\* Largest capacity a TTLCache is constructed with in the cache-only runs.
MaxSize == 2

\* Number of inbound messages handled in one run of the bot.
NumMessages == 2

\* The slots of the on_message coroutines suspended at the same time.
Slots == {1, 2}

\* The instants at which the clock is read.
TimePoints == {bot_start_time + d : d \in {0, 30, 3601}}

\* The instants of the rate-limiter runs.
RateTimePoints == {bot_start_time + d : d \in {0, 30, 60, 3600, 3601}}

\* The instants of the cache-only runs.
CacheTimePoints == {bot_start_time + d : d \in {0, 3600, 3601}}

\* The author ids of the inbound messages.
Users == {1, 2}

\* Pipelines past their check and not yet ended, over all authors
\* (rate-limiter runs).
MaxPending == 2

\* Cap of the rate_limit_blocks counter in the rate-limiter runs.
MaxBlocks == 1

\* translate_text calls made in a run of the calls on their own.
NumCalls == 3

\* Keys and values of the cache-only runs: one key more than the capacity.
CacheKeys == 1..(MaxSize + 1)

CacheValues == {"a", "b"}

\* Python's None.
None == "<None>"

\* ------------------------------------------------------------------- state
VARIABLES
    now,                        \* time.time()
    _cache,                     \* TTLCache._cache: OrderedDict, oldest first, <<key, value>>
    _timestamps,                \* TTLCache._timestamps: dict key -> time of set
    max_size,                   \* TTLCache.max_size
    ttl,                        \* TTLCache.ttl
    author_cooldowns,           \* defaultdict(float): author id -> last commit time
    author_translation_count,   \* defaultdict(list): author id -> commit times
    stats,                      \* the counters
    msgs,                       \* slot -> the on_message coroutine suspended in it
    arrived,                    \* number of messages handled so far
    lastArrived,                \* history: the last message and how far it ran at once
    lastReply,                  \* history: the last awaited reply and how it ended
    quotaDenied,                \* history: author id -> oldest recorded commit at the
                                \*   last hourly-quota denial (-1: none since allowed)
    accepted,                   \* history: author id -> times of all commits
    pending,                    \* rate-limiter runs: author id -> pipelines past the check
    lastCheck,                  \* history: the last check_rate_limit call
    lastOp,                     \* history: the last TTLCache operation
    lastSetAt,                  \* history: key -> time of its last set (-1: never)
    recency,                    \* history: resident keys, least recently used first
    lastCall,                   \* history: the last step of a translate_text call
    probe                       \* a message and what the filter and on_message made of it

cacheVars == <<_cache, _timestamps, max_size, ttl>>
rateVars == <<author_cooldowns, author_translation_count>>
cacheHist == <<lastOp, lastSetAt, recency>>
rateHist == <<accepted, pending, lastCheck, quotaDenied>>
pipeVars == <<msgs, arrived, lastArrived, lastReply>>
probeVars == <<lastCall, probe>>
vars == <<msgs, arrived, lastArrived, lastReply, quotaDenied, now, _cache, _timestamps, max_size, ttl, author_cooldowns,
          author_translation_count, stats, accepted, pending, lastCheck,
          lastOp, lastSetAt, recency, lastCall, probe>>

\* ------------------------------------------------------- OrderedDict helpers
Keys(c) == {c[i][1] : i \in DOMAIN c}

Lookup(c, key) == c[CHOOSE i \in DOMAIN c : c[i][1] = key][2]

Without(c, key) == SelectSeq(c, LAMBDA e : e[1] /= key)

move_to_end(c, key) == Without(c, key) \o << <<key, Lookup(c, key)>> >>

\* d[key] = value on an OrderedDict: an existing key keeps its position.
setitem(c, key, value) ==
    IF key \in Keys(c)
    THEN [i \in DOMAIN c |-> IF c[i][1] = key THEN <<key, value>> ELSE c[i]]
    ELSE Append(c, <<key, value>>)

DictSet(d, key, value) ==
    [x \in DOMAIN d \cup {key} |-> IF x = key THEN value ELSE d[x]]

DictPop(d, key) == [x \in DOMAIN d \ {key} |-> d[x]]

\* ----------------------------------------------------------------- TTLCache
\* Variant of TTLCache.get that expires an entry already at age = ttl.
TTLCache_get_expires_early(c, ts, tl, key, t) ==
    IF key \in Keys(c)
    THEN IF t - ts[key] >= tl
         THEN [cache |-> Without(c, key), timestamps |-> DictPop(ts, key),
               value |-> None]
         ELSE [cache |-> move_to_end(c, key), timestamps |-> ts,
               value |-> Lookup(c, key)]
    ELSE [cache |-> c, timestamps |-> ts, value |-> None]

\* Variant of TTLCache.get that restarts the entry's age on every hit.
TTLCache_get_refreshes(c, ts, tl, key, t) ==
    IF key \in Keys(c)
    THEN IF t - ts[key] > tl
         THEN [cache |-> Without(c, key), timestamps |-> DictPop(ts, key),
               value |-> None]
         ELSE [cache |-> move_to_end(c, key), timestamps |-> DictSet(ts, key, t),
               value |-> Lookup(c, key)]
    ELSE [cache |-> c, timestamps |-> ts, value |-> None]

\* Variant of TTLCache.get without move_to_end: eviction becomes FIFO.
TTLCache_get_no_promote(c, ts, tl, key, t) ==
    IF key \in Keys(c)
    THEN IF t - ts[key] > tl
         THEN [cache |-> Without(c, key), timestamps |-> DictPop(ts, key),
               value |-> None]
         ELSE [cache |-> c, timestamps |-> ts, value |-> Lookup(c, key)]
    ELSE [cache |-> c, timestamps |-> ts, value |-> None]

\* Variant of TTLCache.get that leaves the timestamp of an expired entry.
TTLCache_get_keeps_timestamp(c, ts, tl, key, t) ==
    IF key \in Keys(c)
    THEN IF t - ts[key] > tl
         THEN [cache |-> Without(c, key), timestamps |-> ts, value |-> None]
         ELSE [cache |-> move_to_end(c, key), timestamps |-> ts,
               value |-> Lookup(c, key)]
    ELSE [cache |-> c, timestamps |-> ts, value |-> None]

\* TTLCache.get: the cache after the call and the value returned.
TTLCache_get(c, ts, tl, key, t) ==
    IF key \in Keys(c)
    THEN IF t - ts[key] > tl
         THEN [cache |-> Without(c, key), timestamps |-> DictPop(ts, key),
               value |-> None]
         ELSE [cache |-> move_to_end(c, key), timestamps |-> ts,
               value |-> Lookup(c, key)]
    ELSE [cache |-> c, timestamps |-> ts, value |-> None]

\* while len(self._cache) > self.max_size: popitem(last=False)
RECURSIVE Evict(_, _, _)
Evict(c, ts, mx) ==
    IF Len(c) > mx
    THEN Evict(Tail(c), DictPop(ts, Head(c)[1]), mx)
    ELSE [cache |-> c, timestamps |-> ts]

\* Variant of TTLCache.set without the eviction loop.
TTLCache_set_no_evict(c, ts, mx, key, value, t) ==
    LET c1 == IF key \in Keys(c) THEN move_to_end(c, key) ELSE c
    IN  [cache |-> setitem(c1, key, value), timestamps |-> DictSet(ts, key, t)]

\* TTLCache.set: the cache after the call.
TTLCache_set(c, ts, mx, key, value, t) ==
    LET c1 == IF key \in Keys(c) THEN move_to_end(c, key) ELSE c
        c2 == setitem(c1, key, value)
        ts2 == DictSet(ts, key, t)
    IN  Evict(c2, ts2, mx)

\* ------------------------------------------------------------- rate limiter
\* [ts for ts in author_translation_count[author_id] if ts > hour_ago]
Pruned(times, hour_ago) == SelectSeq(times, LAMBDA ts : ts > hour_ago)

BlockCounted(st) == [st EXCEPT !.rate_limit_blocks = @ + 1]

\* Variant of check_rate_limit that already records the translation when it
\* allows it.
check_rate_limit_records(cd, cnt, st, author_id, t) ==
    IF t - cd[author_id] < COOLDOWN_SECONDS
    THEN [allowed |-> FALSE, reason |-> "cooldown",
          cooldowns |-> cd, counts |-> cnt, stats |-> BlockCounted(st)]
    ELSE LET hour_ago == t - HOUR_SECONDS
             kept == Pruned(cnt[author_id], hour_ago)
             cnt2 == [cnt EXCEPT ![author_id] = kept]
         IN  IF Len(kept) >= MAX_TRANSLATIONS_PER_HOUR
             THEN [allowed |-> FALSE, reason |-> "hour limit",
                   cooldowns |-> cd, counts |-> cnt2, stats |-> BlockCounted(st)]
             ELSE [allowed |-> TRUE, reason |-> "",
                   cooldowns |-> [cd EXCEPT ![author_id] = t],
                   counts |-> cnt2, stats |-> st]

\* Variant of check_rate_limit whose quota gate is off by one (> for >=).
check_rate_limit_off_by_one(cd, cnt, st, author_id, t) ==
    IF t - cd[author_id] < COOLDOWN_SECONDS
    THEN [allowed |-> FALSE, reason |-> "cooldown",
          cooldowns |-> cd, counts |-> cnt, stats |-> BlockCounted(st)]
    ELSE LET hour_ago == t - HOUR_SECONDS
             kept == Pruned(cnt[author_id], hour_ago)
             cnt2 == [cnt EXCEPT ![author_id] = kept]
         IN  IF Len(kept) > MAX_TRANSLATIONS_PER_HOUR
             THEN [allowed |-> FALSE, reason |-> "hour limit",
                   cooldowns |-> cd, counts |-> cnt2, stats |-> BlockCounted(st)]
             ELSE [allowed |-> TRUE, reason |-> "",
                   cooldowns |-> cd, counts |-> cnt2, stats |-> st]

\* check_rate_limit: the returned (allowed, reason) and the state it leaves.
check_rate_limit(cd, cnt, st, author_id, t) ==
    IF t - cd[author_id] < COOLDOWN_SECONDS
    THEN [allowed |-> FALSE, reason |-> "cooldown",
          cooldowns |-> cd, counts |-> cnt, stats |-> BlockCounted(st)]
    ELSE LET hour_ago == t - HOUR_SECONDS
             kept == Pruned(cnt[author_id], hour_ago)
             cnt2 == [cnt EXCEPT ![author_id] = kept]
         IN  IF Len(kept) >= MAX_TRANSLATIONS_PER_HOUR
             THEN [allowed |-> FALSE, reason |-> "hour limit",
                   cooldowns |-> cd, counts |-> cnt2, stats |-> BlockCounted(st)]
             ELSE [allowed |-> TRUE, reason |-> "",
                   cooldowns |-> cd, counts |-> cnt2, stats |-> st]

\* update_rate_limit without the assignment of line 139.
update_rate_limit_no_cooldown(cd, cnt, author_id, t) ==
    [cooldowns |-> cd,
     counts |-> [cnt EXCEPT ![author_id] = Append(@, t)]]

\* update_rate_limit: the state it leaves.
update_rate_limit(cd, cnt, author_id, t) ==
    [cooldowns |-> [cd EXCEPT ![author_id] = t],
     counts |-> [cnt EXCEPT ![author_id] = Append(@, t)]]

\* -------------------------------------------------------------- initial state
NoOp == [op |-> "none", key |-> 0, value |-> None,
         afterSet |-> FALSE, prevValue |-> None,
         resident |-> FALSE, age |-> -1, evicted |-> {}, expected |-> {},
         afterHit |-> 0]

NoCheck == [author |-> 0, allowed |-> FALSE, reason |-> "",
            recent |-> 0, inCooldown |-> FALSE,
            cooldownsSame |-> TRUE, countsSame |-> TRUE, statsSame |-> TRUE,
            othersSame |-> TRUE, keptRecent |-> TRUE, droppedOld |-> TRUE,
            allRecent |-> TRUE, blocksDelta |-> 0]

\* A slot without a coroutine.
Idle == [pc |-> "idle", author |-> 0, bot |-> FALSE, content |-> << >>,
         source_lang |-> "", todo |-> << >>, translations |-> << >>,
         checked |-> FALSE, outcome |-> "none"]

NoReply == [author |-> 0, content |-> << >>, langs |-> 0, failed |-> 0,
            outcome |-> "none", total |-> 0, delivered |-> [u \in Users |-> 0]]

NoCall == [op |-> "none", key |-> << >>, how |-> "none", value |-> None,
           present |-> FALSE, stored |-> None, attempts |-> 0,
           hits |-> 0, api |-> 0, errs |-> 0, cached |-> FALSE,
           wrote |-> FALSE, removed |-> {}]

NoProbe == [stage |-> "none"]

InitStats == [translations_total |-> 0, cache_hits |-> 0,
              rate_limit_blocks |-> 0, errors |-> 0, api_calls |-> 0]

InitCommon ==
    /\ now = bot_start_time
    /\ _cache = << >>
    /\ _timestamps = << >>
    /\ ttl = CACHE_TTL_SECONDS
    /\ author_cooldowns = [u \in Users |-> 0]
    /\ author_translation_count = [u \in Users |-> << >>]
    /\ stats = InitStats
    /\ msgs = [m \in Slots |-> Idle]
    /\ arrived = 0
    /\ lastArrived = Idle
    /\ lastReply = NoReply
    /\ quotaDenied = [u \in Users |-> -1]
    /\ accepted = [u \in Users |-> << >>]
    /\ pending = [u \in Users |-> 0]
    /\ lastCheck = NoCheck
    /\ lastOp = NoOp
    /\ lastSetAt = [k \in CacheKeys |-> -1]
    /\ recency = << >>
    /\ lastCall = NoCall

Tick(points) ==
    /\ \E t \in points : t > now /\ now' = t
    /\ UNCHANGED <<probeVars, cacheVars, rateVars, stats, rateHist, cacheHist, pipeVars>>

\* ------------------------------------------------ the cache on its own
\* A TTLCache of any capacity 1..MaxSize driven by arbitrary get and set calls.
InitCache == InitCommon /\ max_size \in 1..MaxSize /\ probe = NoProbe

SeqWithout(s, key) == SelectSeq(s, LAMBDA x : x /= key)

InSeq(s, key) == \E i \in DOMAIN s : s[i] = key

\* The reference notion of use: a get of a resident entry no older than the
\* TTL, and every set, make the key the most recently used one.
Fresh(key) == InSeq(recency, key) /\ now - lastSetAt[key] <= ttl

CacheGet(key) ==
    LET r == TTLCache_get(_cache, _timestamps, ttl, key, now)
    IN  /\ _cache' = r.cache
        /\ _timestamps' = r.timestamps
        /\ lastOp' = [NoOp EXCEPT
              !.op = "get", !.key = key, !.value = r.value,
              !.afterSet = (lastOp.op = "set" /\ lastOp.key = key),
              !.prevValue = IF lastOp.op = "set" /\ lastOp.key = key
                            THEN lastOp.value ELSE None,
              !.resident = InSeq(recency, key),
              !.age = IF lastSetAt[key] < 0 THEN -1 ELSE now - lastSetAt[key],
              !.afterHit = IF /\ Fresh(key)
                              /\ Head(recency) = key
                              /\ Len(recency) = max_size
                              /\ max_size > 1
                           THEN key ELSE 0]
        /\ recency' = IF Fresh(key) THEN Append(SeqWithout(recency, key), key)
                      ELSE SeqWithout(recency, key)
        /\ UNCHANGED <<probeVars, now, max_size, ttl, rateVars, stats, rateHist, lastSetAt,
                       pipeVars>>

CacheSet(key, value) ==
    LET r == TTLCache_set(_cache, _timestamps, max_size, key, value, now)
        used == Append(SeqWithout(recency, key), key)
        over == Len(used) > max_size
    IN  /\ _cache' = r.cache
        /\ _timestamps' = r.timestamps
        /\ lastOp' = [NoOp EXCEPT
              !.op = "set", !.key = key, !.value = value,
              !.evicted = (Keys(_cache) \cup {key}) \ Keys(r.cache),
              !.expected = IF over THEN {Head(used)} ELSE {},
              !.afterHit = IF lastOp.op = "get" /\ key /= lastOp.afterHit
                           THEN lastOp.afterHit ELSE 0]
        /\ lastSetAt' = [lastSetAt EXCEPT ![key] = now]
        /\ recency' = IF over THEN Tail(used) ELSE used
        /\ UNCHANGED <<probeVars, now, max_size, ttl, rateVars, stats, rateHist, pipeVars>>

CacheTick == Tick(CacheTimePoints)

NextCache ==
    \/ \E key \in CacheKeys : CacheGet(key)
    \/ \E key \in CacheKeys, value \in CacheValues : CacheSet(key, value)
    \/ CacheTick

SpecCache == InitCache /\ [][NextCache]_vars

\* ------------------------------------------- the rate limiter on its own
\* The rate limiter as on_message drives it: a check when a message arrives,
\* and, for a pipeline whose check passed, a commit when its reply has been
\* delivered or no commit when the pipeline ends otherwise.  Pipelines of one
\* author overlap (pending > 1) because on_message suspends between the two.
InitRate == InitCommon /\ max_size = CACHE_MAX_SIZE /\ probe = NoProbe

\* The number of commits of a sequence that lie within the hour before t.
Recent(times, t) == Len(SelectSeq(times, LAMBDA ts : t - ts < HOUR_SECONDS))

InSeqOf(s, x) == \E i \in DOMAIN s : s[i] = x

RECURSIVE SumOver(_, _)
SumOver(f, S) ==
    IF S = {} THEN 0
    ELSE LET x == CHOOSE x \in S : TRUE IN f[x] + SumOver(f, S \ {x})

TotalPending == SumOver(pending, Users)

CheckRecord(author_id, r) ==
    LET before == author_translation_count[author_id]
        after == r.counts[author_id]
    IN  [author |-> author_id, allowed |-> r.allowed, reason |-> r.reason,
         recent |-> Recent(before, now),
         inCooldown |->
             \E i \in DOMAIN before : now - before[i] < COOLDOWN_SECONDS,
         cooldownsSame |-> r.cooldowns = author_cooldowns,
         countsSame |-> r.counts = author_translation_count,
         statsSame |-> r.stats = stats,
         othersSame |->
             /\ \A u \in Users \ {author_id} :
                    r.counts[u] = author_translation_count[u]
             /\ [r.stats EXCEPT !.rate_limit_blocks = 0]
                    = [stats EXCEPT !.rate_limit_blocks = 0],
         keptRecent |->
             after = SelectSeq(before, LAMBDA ts : InSeqOf(after, ts))
             /\ \A i \in DOMAIN before :
                    now - before[i] < HOUR_SECONDS => InSeqOf(after, before[i]),
         droppedOld |->
             \A i \in DOMAIN before :
                 (~InSeqOf(after, before[i])) => now - before[i] >= HOUR_SECONDS,
         allRecent |-> \A i \in DOMAIN after : now - after[i] < HOUR_SECONDS,
         blocksDelta |-> r.stats.rate_limit_blocks - stats.rate_limit_blocks]

RateCheck(author_id) ==
    LET r == check_rate_limit(author_cooldowns, author_translation_count,
                              stats, author_id, now)
    IN  /\ TotalPending < MaxPending
        /\ r.allowed \/ stats.rate_limit_blocks < MaxBlocks
        /\ author_cooldowns' = r.cooldowns
        /\ author_translation_count' = r.counts
        /\ stats' = r.stats
        /\ pending' = [pending EXCEPT ![author_id] = IF r.allowed THEN @ + 1 ELSE @]
        /\ lastCheck' = CheckRecord(author_id, r)
        /\ quotaDenied' =
              IF r.allowed THEN [quotaDenied EXCEPT ![author_id] = -1]
              ELSE IF r.reason = "cooldown" THEN quotaDenied
              ELSE [quotaDenied EXCEPT ![author_id] = Head(r.counts[author_id])]
        /\ UNCHANGED <<probeVars, now, cacheVars, accepted, cacheHist, pipeVars>>

RateCommit(author_id) ==
    LET r == update_rate_limit(author_cooldowns, author_translation_count,
                               author_id, now)
    IN  /\ pending[author_id] > 0
        /\ author_cooldowns' = r.cooldowns
        /\ author_translation_count' = r.counts
        /\ pending' = [pending EXCEPT ![author_id] = @ - 1]
        /\ UNCHANGED <<probeVars, now, cacheVars, stats, accepted, lastCheck, quotaDenied,
                       cacheHist, pipeVars>>

RateNoCommit(author_id) ==
    /\ pending[author_id] > 0
    /\ pending' = [pending EXCEPT ![author_id] = @ - 1]
    /\ UNCHANGED <<probeVars, now, cacheVars, rateVars, stats, accepted, lastCheck, quotaDenied,
                   cacheHist, pipeVars>>

RateTick == Tick(RateTimePoints)

NextRate ==
    \/ \E author_id \in Users : RateCheck(author_id)
    \/ \E author_id \in Users : RateCommit(author_id)
    \/ \E author_id \in Users : RateNoCommit(author_id)
    \/ RateTick

SpecRate == InitRate /\ [][NextRate]_vars

\* ------------------------------------------------------------------ messages
MIN_MESSAGE_LENGTH == 15

MAX_MESSAGE_LENGTH == 1500

\* TARGET_LANGUAGES, in the dict's order.
TARGET_LANGUAGES == <<"en", "fr", "es">>

\* A text is the sequence of its characters.
Whitespace == {" ", "\t", "\n"}

Letters == {"a", "b", "c", "d", "e", "f", "g", "h", "i", "j", "k", "l", "m",
            "n", "o", "p", "q", "r", "s", "t", "u", "v", "w", "x", "y", "z",
            "A", "B", "C", "D", "E", "F", "G", "H", "I", "J", "K", "L", "M",
            "N", "O", "P", "Q", "R", "S", "T", "U", "V", "W", "X", "Y", "Z"}

isalpha(c) == c \in Letters

\* The character U+0060 of the code-block marker.
Backtick == "U+0060"

RECURSIVE lstrip(_)
lstrip(text) ==
    IF text /= << >> /\ Head(text) \in Whitespace THEN lstrip(Tail(text)) ELSE text

RECURSIVE rstrip(_)
rstrip(text) ==
    IF text /= << >> /\ text[Len(text)] \in Whitespace
    THEN rstrip(SubSeq(text, 1, Len(text) - 1))
    ELSE text

strip(text) == rstrip(lstrip(text))

startswith(text, prefix) ==
    Len(text) >= Len(prefix) /\ SubSeq(text, 1, Len(prefix)) = prefix

\* The prefixes of line 186.
SkippedPrefixes ==
    { <<"!">>, <<"/">>,
      <<"h", "t", "t", "p", ":", "/", "/">>,
      <<"h", "t", "t", "p", "s", ":", "/", "/">>,
      <<"<", "@">>, <<"<", "#">>, <<"<", ":">>, <<Backtick, Backtick, Backtick>> }

\* should_translate with < replaced by <= in the lower length test.
should_translate_off_by_one(message) ==
    LET text == strip(message.content)
    IN  IF message.bot THEN FALSE
        ELSE IF Len(text) <= MIN_MESSAGE_LENGTH \/ Len(text) > MAX_MESSAGE_LENGTH
        THEN FALSE
        ELSE IF \E prefix \in SkippedPrefixes : startswith(text, prefix)
        THEN FALSE
        ELSE IF \A i \in DOMAIN text : text[i] = " " \/ ~isalpha(text[i])
        THEN FALSE
        ELSE TRUE

should_translate(message) ==
    LET text == strip(message.content)
    IN  IF message.bot THEN FALSE
        ELSE IF Len(text) < MIN_MESSAGE_LENGTH \/ Len(text) > MAX_MESSAGE_LENGTH
        THEN FALSE
        ELSE IF \E prefix \in SkippedPrefixes : startswith(text, prefix)
        THEN FALSE
        ELSE IF \A i \in DOMAIN text : text[i] = " " \/ ~isalpha(text[i])
        THEN FALSE
        ELSE TRUE

\* The codes mapped by normalize_lang; every other code is lower-cased.
lower(lang) ==
    CASE lang = "FR" -> "fr"
      [] lang = "ZH-CN" -> "zh-cn"
      [] OTHER -> lang

normalize_lang(lang) ==
    LET l == lower(lang)
    IN  CASE l = "zh-cn" -> "zh"
          [] l = "zh-tw" -> "zh"
          [] l = "pt-br" -> "pt"
          [] l = "iw" -> "he"
          [] OTHER -> l

InTargets(lang) == \E i \in DOMAIN TARGET_LANGUAGES : TARGET_LANGUAGES[i] = lang

\* langs_to_translate without the filter of line 233.
langs_to_translate_all(source_lang) == TARGET_LANGUAGES

\* langs_to_translate of lines 233-236.
langs_to_translate(source_lang) ==
    IF ~InTargets(source_lang)
    THEN TARGET_LANGUAGES
    ELSE SelectSeq(TARGET_LANGUAGES, LAMBDA lang : lang /= source_lang)

\* The inbound messages of the runs.
Bonjour == <<"B", "o", "n", "j", "o", "u", "r", " ", "t", "o", "u", "t", " ",
             "l", "e", " ", "m", "o", "n", "d", "e">>

SlashCommand == <<"/", "s", "t", "a", "t", "s", " ", "p", "l", "e", "a", "s",
                  "e", " ", "n", "o", "w">>

MessageInputs ==
    { [author |-> 1, bot |-> FALSE, content |-> Bonjour],
      [author |-> 2, bot |-> FALSE, content |-> <<" ">> \o Bonjour \o <<"\n">>],
      [author |-> 1, bot |-> FALSE, content |-> SlashCommand],
      [author |-> 2, bot |-> TRUE, content |-> Bonjour] }

\* What langdetect.detect returns for a text, or that it raises.
DetectError == "<LangDetectException>"

DetectOutcomes == {"fr", DetectError}

\* What a translation backend returns when it does not raise.
BackendResults == {"Hello everyone"}

\* ------------------------------------------------------ translate_text
cache_key(message, target_lang) ==
    <<strip(message.content), message.source_lang, target_lang>>

\* Python truthiness of the value TTLCache.get returned ("if cached:").
truthy(value) == value /= None /\ value /= ""

\* The shared state a coroutine reads and writes between two suspensions.
Shared == [cache |-> _cache, timestamps |-> _timestamps, stats |-> stats,
           cooldowns |-> author_cooldowns, counts |-> author_translation_count]

\* The for loop of lines 242-246 from the head of todo on, run until the
\* coroutine suspends: at the awaited MyMemory call of the first language that
\* misses the cache, or at the awaited reply when no language is left; with
\* no language left and no translation it returns (line 249).
RECURSIVE RunLoop(_, _)
RunLoop(S, L) ==
    IF L.todo = << >>
    THEN [shared |-> S,
          local |-> IF L.translations = << >>
                    THEN [L EXCEPT !.pc = "done", !.outcome = "no_translations"]
                    ELSE [L EXCEPT !.pc = "reply"]]
    ELSE LET lang == Head(L.todo)
             g == TTLCache_get(S.cache, S.timestamps, ttl, cache_key(L, lang), now)
             S1 == [S EXCEPT !.cache = g.cache, !.timestamps = g.timestamps]
         IN  IF truthy(g.value)
             THEN RunLoop([S1 EXCEPT !.stats.cache_hits = @ + 1],
                          [L EXCEPT !.todo = Tail(@),
                                    !.translations = Append(@, <<lang, g.value>>)])
             ELSE [shared |-> S1,
                   local |-> [L EXCEPT !.pc = "mymemory"]]

\* A backend call returned result, without the increment of line 161 (171).
BackendSucceeded_uncounted(S, L, result) ==
    LET lang == Head(L.todo)
        c == TTLCache_set(S.cache, S.timestamps, max_size, cache_key(L, lang),
                          result, now)
    IN  RunLoop([S EXCEPT !.cache = c.cache, !.timestamps = c.timestamps],
                [L EXCEPT !.todo = Tail(@),
                          !.translations = Append(@, <<lang, result>>)])

\* A backend call returned result: lines 161-163 (171-173) and on with the loop.
BackendSucceeded(S, L, result) ==
    LET lang == Head(L.todo)
        c == TTLCache_set(S.cache, S.timestamps, max_size, cache_key(L, lang),
                          result, now)
    IN  RunLoop([S EXCEPT !.stats.api_calls = @ + 1,
                          !.cache = c.cache, !.timestamps = c.timestamps],
                [L EXCEPT !.todo = Tail(@),
                          !.translations = Append(@, <<lang, result>>)])

\* The Google call raised, without the increment of line 176.
BackendsExhausted_uncounted(S, L) ==
    RunLoop(S, [L EXCEPT !.todo = Tail(@)])

\* The Google call raised and the exception ends the loop of line 242.
BackendsExhausted_aborts(S, L) ==
    RunLoop([S EXCEPT !.stats.errors = @ + 1], [L EXCEPT !.todo = << >>])

\* The Google call raised: lines 174-177, then 245-246 and on with the loop.
BackendsExhausted(S, L) ==
    RunLoop([S EXCEPT !.stats.errors = @ + 1], [L EXCEPT !.todo = Tail(@)])

\* on_message without the return of line 223-224.
on_message_ignores_denial(S, L, detected) ==
    IF ~should_translate(L)
    THEN [shared |-> S, local |-> [L EXCEPT !.pc = "done", !.outcome = "filtered"]]
    ELSE LET r == check_rate_limit(S.cooldowns, S.counts, S.stats, L.author, now)
             S1 == [S EXCEPT !.cooldowns = r.cooldowns, !.counts = r.counts,
                             !.stats = r.stats]
         IN  IF detected = DetectError
             THEN [shared |-> S1,
                   local |-> [L EXCEPT !.pc = "done", !.outcome = "detect_failed"]]
             ELSE LET source_lang == normalize_lang(detected)
                      langs == langs_to_translate(source_lang)
                      L1 == [L EXCEPT !.source_lang = source_lang, !.todo = langs]
                  IN  IF langs = << >>
                      THEN [shared |-> S1,
                            local |-> [L1 EXCEPT !.pc = "done", !.outcome = "no_langs"]]
                      ELSE RunLoop(S1, L1)

\* on_message from its call to its first suspension or return (lines 219-246).
on_message(S, L, detected) ==
    IF ~should_translate(L)
    THEN [shared |-> S, local |-> [L EXCEPT !.pc = "done", !.outcome = "filtered"]]
    ELSE LET r == check_rate_limit(S.cooldowns, S.counts, S.stats, L.author, now)
             S1 == [S EXCEPT !.cooldowns = r.cooldowns, !.counts = r.counts,
                             !.stats = r.stats]
         IN  IF ~r.allowed
             THEN [shared |-> S1,
                   local |-> [L EXCEPT !.pc = "done", !.outcome = "rate_limited"]]
             ELSE IF detected = DetectError
             THEN [shared |-> S1,
                   local |-> [L EXCEPT !.pc = "done", !.outcome = "detect_failed"]]
             ELSE LET source_lang == normalize_lang(detected)
                      langs == langs_to_translate(source_lang)
                      L1 == [L EXCEPT !.source_lang = source_lang, !.todo = langs]
                  IN  IF langs = << >>
                      THEN [shared |-> S1,
                            local |-> [L1 EXCEPT !.pc = "done", !.outcome = "no_langs"]]
                      ELSE RunLoop(S1, L1)

\* ------------------------------------------------------------ the bot
\* History: a rate-limit check of the author in the current state passes.
CheckWouldPass(author_id) ==
    /\ now - author_cooldowns[author_id] >= COOLDOWN_SECONDS
    /\ Recent(author_translation_count[author_id], now) < MAX_TRANSLATIONS_PER_HOUR

\* History of the awaited reply of m that ended as how: the languages of its
\* embed, the languages given up, and the delivered replies so far.
Replied(m, how) ==
    LET langs == Len(msgs[m].translations)
        ok == how = "delivered"
    IN  [author |-> msgs[m].author, content |-> msgs[m].content,
         langs |-> langs,
         failed |-> Len(langs_to_translate(msgs[m].source_lang)) - langs,
         outcome |-> how,
         total |-> lastReply.total + (IF ok THEN langs ELSE 0),
         delivered |-> [lastReply.delivered EXCEPT
                           ![msgs[m].author] = @ + (IF ok THEN 1 ELSE 0)]]

Init == InitCommon /\ max_size = CACHE_MAX_SIZE /\ probe = NoProbe

\* The step of coroutine m leaves the shared state r.shared and the local
\* state r.local; a coroutine that has returned frees its slot.
Leaves(m, r) ==
    /\ msgs' = [msgs EXCEPT ![m] = IF r.local.pc = "done" THEN Idle ELSE r.local]
    /\ _cache' = r.shared.cache
    /\ _timestamps' = r.shared.timestamps
    /\ stats' = r.shared.stats
    /\ author_cooldowns' = r.shared.cooldowns
    /\ author_translation_count' = r.shared.counts

\* A message arrives: on_message runs in the first free slot m to its first
\* suspension or to its return.
Arrive(m) ==
    /\ arrived < NumMessages
    /\ msgs[m].pc = "idle"
    /\ \A slot \in Slots : slot < m => msgs[slot].pc /= "idle"
    /\ \E message \in MessageInputs, detected \in DetectOutcomes :
          LET L == [Idle EXCEPT !.author = message.author, !.bot = message.bot,
                                !.content = message.content,
                                !.checked = CheckWouldPass(message.author)]
              r == on_message(Shared, L, detected)
          IN  /\ Leaves(m, r)
              /\ lastArrived' = r.local
    /\ arrived' = arrived + 1
    /\ UNCHANGED <<probeVars, now, max_size, ttl, rateHist, cacheHist, lastReply>>

\* The awaited MyMemory call of m returns a translation.
MyMemoryReturns(m) ==
    /\ msgs[m].pc = "mymemory"
    /\ \E result \in BackendResults :
          Leaves(m, BackendSucceeded(Shared, msgs[m], result))
    /\ UNCHANGED <<probeVars, now, max_size, ttl, rateHist, cacheHist,
                   arrived, lastArrived, lastReply>>

\* The awaited MyMemory call of m raises: translate_text awaits Google.
MyMemoryRaises(m) ==
    /\ msgs[m].pc = "mymemory"
    /\ msgs' = [msgs EXCEPT ![m].pc = "google"]
    /\ UNCHANGED <<probeVars, now, cacheVars, rateVars, stats, rateHist, cacheHist,
                   arrived, lastArrived, lastReply>>

\* The awaited Google call of m returns a translation.
GoogleReturns(m) ==
    /\ msgs[m].pc = "google"
    /\ \E result \in BackendResults :
          Leaves(m, BackendSucceeded(Shared, msgs[m], result))
    /\ UNCHANGED <<probeVars, now, max_size, ttl, rateHist, cacheHist,
                   arrived, lastArrived, lastReply>>

\* The awaited Google call of m raises: the language is skipped.
GoogleRaises(m) ==
    /\ msgs[m].pc = "google"
    /\ Leaves(m, BackendsExhausted(Shared, msgs[m]))
    /\ UNCHANGED <<probeVars, now, max_size, ttl, rateHist, cacheHist,
                   arrived, lastArrived, lastReply>>

\* The delivered reply of m counted as one translation whatever it holds.
ReplyDelivered_counts_replies(m) ==
    LET u == msgs[m].author
        r == update_rate_limit(author_cooldowns, author_translation_count, u, now)
    IN  /\ msgs[m].pc = "reply"
        /\ msgs' = [msgs EXCEPT ![m] = Idle]
        /\ author_cooldowns' = r.cooldowns
        /\ author_translation_count' = r.counts
        /\ stats' = [stats EXCEPT !.translations_total = @ + 1]
        /\ accepted' = [accepted EXCEPT ![u] = Append(@, now)]
        /\ lastReply' = Replied(m, "delivered")
        /\ UNCHANGED <<probeVars, now, cacheVars, pending, lastCheck, quotaDenied, cacheHist,
                       arrived, lastArrived>>

\* The awaited reply of m is delivered: lines 262-263.
ReplyDelivered(m) ==
    LET u == msgs[m].author
        r == update_rate_limit(author_cooldowns, author_translation_count, u, now)
    IN  /\ msgs[m].pc = "reply"
        /\ msgs' = [msgs EXCEPT ![m] = Idle]
        /\ author_cooldowns' = r.cooldowns
        /\ author_translation_count' = r.counts
        /\ stats' = [stats EXCEPT !.translations_total = @ + Len(msgs[m].translations)]
        /\ accepted' = [accepted EXCEPT ![u] = Append(@, now)]
        /\ lastReply' = Replied(m, "delivered")
        /\ UNCHANGED <<probeVars, now, cacheVars, pending, lastCheck, quotaDenied, cacheHist,
                       arrived, lastArrived>>

\* The awaited reply of m raises discord.Forbidden: lines 267-268.
ReplyForbidden(m) ==
    /\ msgs[m].pc = "reply"
    /\ msgs' = [msgs EXCEPT ![m] = Idle]
    /\ lastReply' = Replied(m, "forbidden")
    /\ UNCHANGED <<probeVars, now, cacheVars, rateVars, stats, rateHist, cacheHist,
                   arrived, lastArrived>>

\* The awaited reply of m raises another discord.HTTPException: lines 269-271.
ReplyHTTPException(m) ==
    /\ msgs[m].pc = "reply"
    /\ msgs' = [msgs EXCEPT ![m] = Idle]
    /\ stats' = [stats EXCEPT !.errors = @ + 1]
    /\ lastReply' = Replied(m, "http_error")
    /\ UNCHANGED <<probeVars, now, cacheVars, rateVars, rateHist, cacheHist,
                   arrived, lastArrived>>

\* The awaited reply of m raises an exception that is no discord.HTTPException
\* (a connection error, a timeout): no except clause of lines 267-269 matches
\* and it leaves on_message.
ReplyRaises(m) ==
    /\ msgs[m].pc = "reply"
    /\ msgs' = [msgs EXCEPT ![m] = Idle]
    /\ lastReply' = Replied(m, "raised")
    /\ UNCHANGED <<probeVars, now, cacheVars, rateVars, stats, rateHist, cacheHist,
                   arrived, lastArrived>>

ClockTick == Tick(TimePoints)

Next ==
    \/ \E m \in Slots : Arrive(m)
    \/ \E m \in Slots : MyMemoryReturns(m)
    \/ \E m \in Slots : MyMemoryRaises(m)
    \/ \E m \in Slots : GoogleReturns(m)
    \/ \E m \in Slots : GoogleRaises(m)
    \/ \E m \in Slots : ReplyDelivered(m)
    \/ \E m \in Slots : ReplyForbidden(m)
    \/ \E m \in Slots : ReplyHTTPException(m)
    \/ \E m \in Slots : ReplyRaises(m)
    \/ ClockTick

Spec == Init /\ [][Next]_vars
\* ------------------------------------------------ translate_text on its own
\* Concurrent translate_text calls on a TTLCache of any capacity 1..MaxSize:
\* a call is the loop body of lines 243-246 for one language.
TranslateTexts == { <<"h", "i">>, <<" ", "h", "i">> }

TranslateTargets == {"en", "es"}

\* A backend may return the empty string.
TranslateResults == BackendResults \cup {""}

InitTranslate == InitCommon /\ max_size \in 1..MaxSize /\ probe = NoProbe

\* The entry of key that TTLCache.get would serve at time t.
Present(c, ts, tl, key, t) == key \in Keys(c) /\ t - ts[key] <= tl

\* Some entry of the cache <<c2, ts2>> was not written so in <<c, ts>>.
Written(c, ts, c2, ts2) ==
    \E k \in Keys(c2) : \/ k \notin Keys(c)
                        \/ Lookup(c2, k) /= Lookup(c, k)
                        \/ ts2[k] /= ts[k]

\* What the step of a call that leaves r did; L is the call before the step.
CallRecord(op, how, L, r, attempts) ==
    LET key == cache_key(L, Head(L.todo))
    IN  [op |-> op, key |-> key, how |-> how,
         value |-> IF r.local.translations = << >> THEN None
                   ELSE r.local.translations[1][2],
         present |-> Present(_cache, _timestamps, ttl, key, now),
         stored |-> IF key \in Keys(_cache) THEN Lookup(_cache, key) ELSE None,
         attempts |-> attempts,
         hits |-> r.shared.stats.cache_hits - stats.cache_hits,
         api |-> r.shared.stats.api_calls - stats.api_calls,
         errs |-> r.shared.stats.errors - stats.errors,
         cached |-> key \in Keys(r.shared.cache)
                        /\ key \in DOMAIN r.shared.timestamps,
         wrote |-> Written(_cache, _timestamps, r.shared.cache, r.shared.timestamps),
         removed |-> Keys(_cache) \ Keys(r.shared.cache)]

\* The step leaves r; a call that returned or raised frees its slot.
TranslateLeaves(m, r) ==
    /\ msgs' = [msgs EXCEPT ![m] = IF r.local.pc \in {"reply", "done"}
                                   THEN Idle ELSE r.local]
    /\ _cache' = r.shared.cache
    /\ _timestamps' = r.shared.timestamps
    /\ stats' = r.shared.stats

\* translate_text is called: lines 150-155, then suspended at line 158.
TranslateCall(m) ==
    /\ arrived < NumCalls
    /\ msgs[m].pc = "idle"
    /\ \A slot \in Slots : slot < m => msgs[slot].pc /= "idle"
    /\ \E text \in TranslateTexts, target_lang \in TranslateTargets :
          LET L == [Idle EXCEPT !.content = text, !.source_lang = "fr",
                                !.todo = <<target_lang>>]
              r == RunLoop(Shared, L)
              hit == r.local.pc = "reply"
          IN  /\ TranslateLeaves(m, r)
              /\ lastCall' = CallRecord("call", IF hit THEN "hit" ELSE "miss", L, r,
                                        IF hit THEN 0 ELSE 1)
    /\ arrived' = arrived + 1
    /\ UNCHANGED <<now, max_size, ttl, rateVars, rateHist, cacheHist,
                   lastArrived, lastReply, probe>>

\* The MyMemory call of m returns: lines 161-163.
TranslateMyMemoryReturns(m) ==
    /\ msgs[m].pc = "mymemory"
    /\ \E result \in TranslateResults :
          LET r == BackendSucceeded(Shared, msgs[m], result)
          IN  /\ TranslateLeaves(m, r)
              /\ lastCall' = CallRecord("return", "primary", msgs[m], r, 1)
    /\ UNCHANGED <<now, max_size, ttl, rateVars, rateHist, cacheHist,
                   arrived, lastArrived, lastReply, probe>>

\* The MyMemory call of m raises: lines 164-165, then suspended at line 168.
TranslateMyMemoryRaises(m) ==
    /\ msgs[m].pc = "mymemory"
    /\ msgs' = [msgs EXCEPT ![m].pc = "google"]
    /\ lastCall' = CallRecord("fallback", "miss", msgs[m],
                              [shared |-> Shared, local |-> msgs[m]], 2)
    /\ UNCHANGED <<now, cacheVars, rateVars, stats, rateHist, cacheHist,
                   arrived, lastArrived, lastReply, probe>>

\* The Google call of m returns: lines 171-173.
TranslateGoogleReturns(m) ==
    /\ msgs[m].pc = "google"
    /\ \E result \in TranslateResults :
          LET r == BackendSucceeded(Shared, msgs[m], result)
          IN  /\ TranslateLeaves(m, r)
              /\ lastCall' = CallRecord("return", "secondary", msgs[m], r, 2)
    /\ UNCHANGED <<now, max_size, ttl, rateVars, rateHist, cacheHist,
                   arrived, lastArrived, lastReply, probe>>

\* The Google call of m raises: lines 174-177.
TranslateGoogleRaises(m) ==
    /\ msgs[m].pc = "google"
    /\ LET r == BackendsExhausted(Shared, msgs[m])
       IN  /\ TranslateLeaves(m, r)
           /\ lastCall' = CallRecord("raise", "failed", msgs[m], r, 2)
    /\ UNCHANGED <<now, max_size, ttl, rateVars, rateHist, cacheHist,
                   arrived, lastArrived, lastReply, probe>>

TranslateTick ==
    /\ \E t \in CacheTimePoints : t > now /\ now' = t
    /\ UNCHANGED <<cacheVars, rateVars, stats, rateHist, cacheHist, pipeVars,
                   probeVars>>

NextTranslate ==
    \/ \E m \in Slots : TranslateCall(m)
    \/ \E m \in Slots : TranslateMyMemoryReturns(m)
    \/ \E m \in Slots : TranslateMyMemoryRaises(m)
    \/ \E m \in Slots : TranslateGoogleReturns(m)
    \/ \E m \in Slots : TranslateGoogleRaises(m)
    \/ TranslateTick

SpecTranslate == InitTranslate /\ [][NextTranslate]_vars


\* ------------------------------------------------------ rate-limiter claims
\* ------------------------------------------------ one message on its own
\* One message of any of the shapes below meets the filter, then on_message
\* runs on it to its first suspension or to its return.
Repeat(c, n) == [i \in 1..n |-> c]

ProbeBodies ==
    { Repeat("a", MIN_MESSAGE_LENGTH - 1),
      Repeat("a", MIN_MESSAGE_LENGTH),
      Repeat("a", MAX_MESSAGE_LENGTH),
      Repeat("a", MAX_MESSAGE_LENGTH + 1),
      Repeat("!", 20),
      Repeat("7", 20),
      <<"!", " ">> \o Repeat("?", 18),
      <<"Z">> \o Repeat(" ", 13) \o <<"!">>,
      <<"!">> \o Repeat("a", 20),
      <<"/">> \o Repeat("a", 20),
      <<"h", "t", "t", "p", ":", "/", "/">> \o Repeat("a", 20),
      <<"h", "t", "t", "p", "s", ":", "/", "/">> \o Repeat("a", 20),
      <<"h", "t", "t", "p">> \o Repeat("a", 20),
      <<"<", "@">> \o Repeat("a", 20),
      <<"<", "#">> \o Repeat("a", 20),
      <<"<", ":">> \o Repeat("a", 20),
      <<"<">> \o Repeat("a", 20),
      <<Backtick, Backtick, Backtick>> \o Repeat("a", 20),
      <<Backtick, Backtick>> \o Repeat("a", 20),
      <<"a", "/">> \o Repeat("a", 20),
      Bonjour }

ProbeContents ==
    ProbeBodies \cup {<<" ", "\t">> \o body \o <<"\n">> : body \in ProbeBodies}

\* What langdetect.detect may return, or that it raises.
ProbeDetected == {"fr", "en", "es", "de", "FR", "zh-cn", DetectError}

ProbeInputs ==
    [stage : {"input"},
     message : [author : {1}, bot : BOOLEAN, content : ProbeContents],
     detected : ProbeDetected,
     accepted : {FALSE},
     local : {Idle}]

InitMessage == InitCommon /\ max_size = CACHE_MAX_SIZE /\ probe \in ProbeInputs

\* should_translate(message) is evaluated.
ProbeFilter ==
    /\ probe.stage = "input"
    /\ probe' = [probe EXCEPT !.stage = "filtered",
                              !.accepted = should_translate(probe.message)]
    /\ UNCHANGED <<now, cacheVars, rateVars, stats, rateHist, cacheHist, pipeVars,
                   lastCall>>

\* on_message(message) runs to its first suspension or to its return.
ProbeHandle ==
    /\ probe.stage = "filtered"
    /\ LET L == [Idle EXCEPT !.author = probe.message.author,
                             !.bot = probe.message.bot,
                             !.content = probe.message.content]
           r == on_message(Shared, L, probe.detected)
       IN  /\ probe' = [probe EXCEPT !.stage = "handled", !.local = r.local]
           /\ _cache' = r.shared.cache
           /\ _timestamps' = r.shared.timestamps
           /\ stats' = r.shared.stats
           /\ author_cooldowns' = r.shared.cooldowns
           /\ author_translation_count' = r.shared.counts
    /\ UNCHANGED <<now, max_size, ttl, rateHist, cacheHist, pipeVars, lastCall>>

NextMessage == ProbeFilter \/ ProbeHandle

SpecMessage == InitMessage /\ [][NextMessage]_vars

\* C7 as stated: check_rate_limit is read-only: allowed or denied, it leaves
\* the cooldown timestamps, the recorded timestamp sequences and every other
\* piece of shared state (the counters) unchanged.
C7_CheckReadOnly ==
    lastCheck.author /= 0 =>
        /\ lastCheck.cooldownsSame
        /\ lastCheck.countsSame
        /\ lastCheck.statsSame

\* C7 as amended: check_rate_limit leaves the cooldown timestamps, the other
\* authors' sequences and every counter but rate_limit_blocks unchanged; it
\* adds one to rate_limit_blocks exactly when it denies; of the author's
\* recorded timestamps it keeps, in order, every one less than 3600 seconds
\* old, removes none when it denies for cooldown, and otherwise removes
\* exactly those 3600 seconds old or older.
C7_CheckEffects ==
    lastCheck.author /= 0 =>
        /\ lastCheck.cooldownsSame
        /\ lastCheck.othersSame
        /\ lastCheck.blocksDelta = (IF lastCheck.allowed THEN 0 ELSE 1)
        /\ lastCheck.keptRecent
        /\ lastCheck.droppedOld
        /\ lastCheck.reason = "cooldown" => lastCheck.countsSame
        /\ lastCheck.reason /= "cooldown" => lastCheck.allRecent

\* A check has denied for the hourly quota and pruned an old timestamp.
C7_Witness ==
    /\ lastCheck.author /= 0
    /\ ~lastCheck.allowed
    /\ ~lastCheck.countsSame
    /\ ~lastCheck.statsSame

\* C8 as stated: with N = MAX_TRANSLATIONS_PER_HOUR commits inside the
\* trailing hour the next check is denied with reason "hourly_quota"; every
\* denied check has a reason among "cooldown" and "hourly_quota".
C8_HourlyQuotaReason ==
    lastCheck.author /= 0 =>
        /\ lastCheck.recent = MAX_TRANSLATIONS_PER_HOUR =>
               (~lastCheck.allowed /\ lastCheck.reason = "hourly_quota")
        /\ ~lastCheck.allowed => lastCheck.reason \in {"cooldown", "hourly_quota"}

\* C8 as amended: with MAX_TRANSLATIONS_PER_HOUR or more commits inside the
\* trailing hour the next check is denied, with reason "cooldown" when a
\* commit is less than COOLDOWN_SECONDS old and "hour limit" otherwise; every
\* denied check has a reason among "cooldown" and "hour limit".
C8_QuotaDenied ==
    lastCheck.author /= 0 =>
        /\ lastCheck.recent >= MAX_TRANSLATIONS_PER_HOUR =>
               /\ ~lastCheck.allowed
               /\ lastCheck.reason =
                      (IF lastCheck.inCooldown THEN "cooldown" ELSE "hour limit")
        /\ ~lastCheck.allowed => lastCheck.reason \in {"cooldown", "hour limit"}

\* A check found the quota full after the cooldown had elapsed.
C8_Witness ==
    /\ lastCheck.author /= 0
    /\ lastCheck.recent = MAX_TRANSLATIONS_PER_HOUR
    /\ ~lastCheck.inCooldown
    /\ lastCheck.reason = "hour limit"

\* ------------------------------------------------------------ cache claims
\* C3: after any sequence of TTLCache get and set operations the number of
\* resident entries never exceeds max_size.
C3_SizeBounded == Len(_cache) <= max_size

\* A set of a new key into a full cache has just evicted an entry.
C3_Witness ==
    /\ lastOp.op = "set"
    /\ lastOp.evicted /= {}
    /\ Len(_cache) = max_size

\* C4: a get(k) that immediately follows set(k, v) and occurs within the TTL
\* of it returns exactly v; a key is resident at most once (a set on an
\* existing key replaces its value).
C4_GetAfterSet ==
    /\ (lastOp.op = "get" /\ lastOp.afterSet /\ lastOp.age <= ttl)
           => lastOp.value = lastOp.prevValue
    /\ Cardinality(Keys(_cache)) = Len(_cache)
    /\ (lastOp.op = "set" /\ lastOp.key \in Keys(_cache))
           => Lookup(_cache, lastOp.key) = lastOp.value

\* A get at age exactly ttl right after a set has returned the value set.
C4_Witness ==
    /\ lastOp.op = "get"
    /\ lastOp.afterSet
    /\ lastOp.age = ttl
    /\ lastOp.value = lastOp.prevValue
    /\ lastOp.value /= None

\* C5: get never returns a value whose age (time since its last set) exceeds
\* the TTL, however many gets promoted it; a get on a resident entry older
\* than the TTL returns absent and removes the entry.
C5_NoStaleValue ==
    lastOp.op = "get" =>
        /\ lastOp.value /= None => (lastOp.age >= 0 /\ lastOp.age <= ttl)
        /\ (lastOp.resident /\ lastOp.age > ttl) =>
               /\ lastOp.value = None
               /\ lastOp.key \notin Keys(_cache)
               /\ lastOp.key \notin DOMAIN _timestamps

\* A get has found a resident entry older than the TTL.
C5_Witness ==
    /\ lastOp.op = "get"
    /\ lastOp.resident
    /\ lastOp.age > ttl
    /\ lastOp.value = None

\* C6: the entries a set evicts are exactly the least recently used ones,
\* where a non-expired get and a set count as use; after a get of the oldest
\* key A of a full cache, the set of a new key leaves A resident and evicts
\* another key.
C6_EvictsLeastRecentlyUsed ==
    lastOp.op = "set" =>
        /\ lastOp.evicted = lastOp.expected
        /\ (lastOp.afterHit /= 0 /\ lastOp.evicted /= {}) =>
               /\ lastOp.afterHit \in Keys(_cache)
               /\ lastOp.afterHit \notin lastOp.evicted

\* Fill to capacity, get the oldest key A, set a new key: A has survived.
C6_Witness ==
    /\ lastOp.op = "set"
    /\ lastOp.afterHit /= 0
    /\ lastOp.evicted /= {}
    /\ lastOp.afterHit \in Keys(_cache)

\* ------------------------------------------------------------ claims: the bot
Last(times) == times[Len(times)]

InFlight(m) == msgs[m].pc \in {"mymemory", "google", "reply"}

\* C1: whatever the interleaving of one user's messages, no two of the user's
\* accepted translations are less than COOLDOWN_SECONDS apart, and the hour
\* ending at any accepted translation holds at most MAX_TRANSLATIONS_PER_HOUR
\* of them.
C1_AcceptedObeyLimits ==
    \A u \in Users :
        /\ \A i, j \in DOMAIN accepted[u] :
               i < j => accepted[u][j] - accepted[u][i] >= COOLDOWN_SECONDS
        /\ \A i \in DOMAIN accepted[u] :
               Cardinality({j \in DOMAIN accepted[u] :
                               /\ j <= i
                               /\ accepted[u][i] - accepted[u][j] < HOUR_SECONDS})
                   <= MAX_TRANSLATIONS_PER_HOUR

\* C2: a message waiting on a translation backend or on its reply passed the
\* rate-limit check when it arrived, a message that did not pass returns
\* without suspending, and the limiter's record of a user changes only in the
\* step in which the reply to one of the user's messages is delivered.
C2_Checked ==
    /\ \A m \in Slots : InFlight(m) => msgs[m].checked
    /\ (lastArrived.author /= 0 /\ ~lastArrived.checked) => lastArrived.pc = "done"

C2_CommitStep ==
    \A u \in Users :
        (\/ author_cooldowns'[u] /= author_cooldowns[u]
         \/ Len(author_translation_count'[u]) > Len(author_translation_count[u])
         \/ accepted'[u] /= accepted[u])
        => /\ \E m \in Slots : /\ msgs[m].pc = "reply"
                               /\ msgs[m].author = u
                               /\ msgs'[m] = Idle
           /\ lastReply'.outcome = "delivered"
           /\ lastReply'.author = u
           /\ author_cooldowns'[u] = now
           /\ author_translation_count'[u]
                  = Append(author_translation_count[u], now)

C2_CheckFirstCommitLast == [](C2_Checked) /\ [][C2_CommitStep]_vars

\* A reply was delivered and committed, and a later message of the same user
\* was denied on arrival.
C2_Witness ==
    /\ lastReply.outcome = "delivered"
    /\ accepted[lastReply.author] /= << >>
    /\ lastArrived.author = lastReply.author
    /\ lastArrived.outcome = "rate_limited"
    /\ ~lastArrived.checked

\* C10: while less than COOLDOWN_SECONDS have passed since a user's last
\* accepted translation, a check of that user is denied for the cooldown, and
\* a message of that user that arrives is dropped at once: no backend call,
\* no cache change, no reply, nothing recorded as accepted.
InCooldown(u) ==
    /\ accepted[u] /= << >>
    /\ now - Last(accepted[u]) < COOLDOWN_SECONDS

C10_CheckDenied ==
    \A u \in Users :
        InCooldown(u) =>
            LET r == check_rate_limit(author_cooldowns, author_translation_count,
                                      stats, u, now)
            IN  ~r.allowed /\ r.reason = "cooldown"

C10_ArrivalDropped ==
    \A u \in Users :
        (InCooldown(u) /\ arrived' = arrived + 1 /\ lastArrived'.author = u
            /\ ~lastArrived'.bot /\ should_translate(lastArrived'))
        => /\ lastArrived'.pc = "done"
           /\ lastArrived'.outcome = "rate_limited"
           /\ lastArrived'.translations = << >>
           /\ msgs' = msgs
           /\ _cache' = _cache
           /\ _timestamps' = _timestamps
           /\ stats'.api_calls = stats.api_calls
           /\ stats'.cache_hits = stats.cache_hits
           /\ stats'.translations_total = stats.translations_total
           /\ lastReply' = lastReply
           /\ accepted' = accepted
           /\ author_cooldowns' = author_cooldowns

C10_CooldownDenial == [](C10_CheckDenied) /\ [][C10_ArrivalDropped]_vars

\* The reply to a message was delivered, and the same content from the same
\* user arrived again within the cooldown and was dropped.
C10_Witness ==
    /\ lastReply.outcome = "delivered"
    /\ lastArrived.author = lastReply.author
    /\ lastArrived.content = lastReply.content
    /\ lastArrived.outcome = "rate_limited"
    /\ InCooldown(lastArrived.author)
    /\ \A m \in Slots : msgs[m].pc = "idle"

\* ------------------------------------------------------------ claims: the limiter
\* C9: once the oldest of the timestamps that exhausted a user's hourly quota
\* is more than an hour old and the cooldown has elapsed, a check of that user
\* is allowed and leaves only timestamps of the last hour.
C9_CheckSucceedsAfterWindow ==
    \A u \in Users :
        (/\ quotaDenied[u] >= 0
         /\ now - quotaDenied[u] > HOUR_SECONDS
         /\ now - author_cooldowns[u] >= COOLDOWN_SECONDS)
        => LET r == check_rate_limit(author_cooldowns, author_translation_count,
                                     stats, u, now)
           IN  /\ r.allowed
               /\ \A i \in DOMAIN r.counts[u] : now - r.counts[u][i] < HOUR_SECONDS

\* ------------------------------------------------------------ claims: translate_text
Suspended(m) == msgs[m].pc \in {"mymemory", "google"}

\* C11: the Google backend is called only after the MyMemory call of the same
\* translate_text call has failed; the MyMemory failure alone changes no
\* counter and does not end the call; when both backends fail the call fails,
\* errors grows by exactly one and nothing is written to the cache.
C11_Failed ==
    /\ lastCall.how = "failed"
           => /\ lastCall.op = "raise"
              /\ lastCall.attempts = 2
              /\ lastCall.errs = 1 /\ lastCall.api = 0 /\ lastCall.hits = 0
              /\ ~lastCall.wrote
              /\ lastCall.removed = {}
              /\ lastCall.value = None
    /\ lastCall.op = "fallback"
           => /\ lastCall.errs = 0 /\ lastCall.api = 0 /\ lastCall.hits = 0
              /\ ~lastCall.wrote
              /\ \E m \in Slots : msgs[m].pc = "google"

C11_Order ==
    \A m \in Slots :
        /\ (msgs'[m].pc = "google" /\ msgs[m].pc /= "google")
               => /\ msgs[m].pc = "mymemory"
                  /\ msgs'[m] = [msgs[m] EXCEPT !.pc = "google"]
                  /\ stats' = stats
                  /\ _cache' = _cache
                  /\ _timestamps' = _timestamps
        /\ (msgs[m].pc = "mymemory" /\ msgs'[m] /= msgs[m])
               => \/ msgs'[m].pc = "google"
                  \/ (msgs'[m] = Idle /\ lastCall'.how = "primary")
        /\ (msgs[m].pc = "google" /\ msgs'[m] /= msgs[m])
               => /\ msgs'[m] = Idle
                  /\ lastCall'.how \in {"secondary", "failed"}

C11_BackendChain == [](C11_Failed) /\ [][C11_Order]_vars

\* Both backends of a call failed while another call was suspended.
C11_Witness ==
    /\ lastCall.how = "failed"
    /\ _cache /= << >>
    /\ \E m \in Slots : Suspended(m)

\* C12: a translate_text call whose key has a present, non-expired cache entry
\* returns the stored value, whatever string it is, at once: no backend call,
\* cache_hits grows by one and api_calls does not change.
C12_HitsSkipBackends ==
    (lastCall.op = "call" /\ lastCall.present)
        => /\ lastCall.how = "hit"
           /\ lastCall.value = lastCall.stored
           /\ lastCall.attempts = 0
           /\ lastCall.hits = 1
           /\ lastCall.api = 0

\* C19: in every state between two steps, that is wherever a call is suspended
\* and after every get and set, the value map and the timestamp map of the
\* cache have the same keys.
C19_SameKeys ==
    /\ Keys(_cache) = DOMAIN _timestamps
    /\ Len(_cache) = Cardinality(Keys(_cache))

\* A step removed an entry (expired or evicted) while a call is suspended
\* and the cache is not empty.
C19_Witness ==
    /\ lastCall.removed /= {}
    /\ _cache /= << >>
    /\ \E m \in Slots : Suspended(m)

\* C20: every completed translate_text call increments exactly one of
\* cache_hits, api_calls and errors, by one: cache_hits on a hit, api_calls
\* when either backend returned, and then the result is cached under the
\* call's key, errors when both failed; a call makes at most two attempts, and
\* no step that does not complete a call changes a counter.
Completed == lastCall.how \in {"hit", "primary", "secondary", "failed"}

C20_OneCounter ==
    /\ Completed
           => /\ <<lastCall.hits, lastCall.api, lastCall.errs>>
                    = CASE lastCall.how = "hit" -> <<1, 0, 0>>
                        [] lastCall.how \in {"primary", "secondary"} -> <<0, 1, 0>>
                        [] lastCall.how = "failed" -> <<0, 0, 1>>
              /\ lastCall.attempts
                    = CASE lastCall.how = "hit" -> 0
                        [] lastCall.how = "primary" -> 1
                        [] OTHER -> 2
              /\ lastCall.how \in {"primary", "secondary"}
                    => lastCall.cached /\ lastCall.value /= None
    /\ ~Completed
           => lastCall.hits = 0 /\ lastCall.api = 0 /\ lastCall.errs = 0
    /\ stats.cache_hits + stats.api_calls + stats.errors
           = arrived - Cardinality({m \in Slots : msgs[m].pc /= "idle"})
    /\ stats.translations_total = 0 /\ stats.rate_limit_blocks = 0

C20_ResultCached ==
    (lastCall'.how \in {"primary", "secondary"} /\ lastCall' /= lastCall)
        => /\ lastCall'.key \in Keys(_cache')
           /\ Lookup(_cache', lastCall'.key) = lastCall'.value
           /\ _timestamps'[lastCall'.key] = now

C20_Counters == [](C20_OneCounter) /\ [][C20_ResultCached]_vars

\* The MyMemory call failed and the Google call returned.
C20_Witness ==
    /\ lastCall.how = "secondary"
    /\ lastCall.api = 1
    /\ stats.errors = 0
    /\ stats.api_calls = 2
    /\ \E m \in Slots : Suspended(m)

\* ------------------------------------------------------------ claims: one message
TargetSet == {"en", "fr", "es"}

Elements(seq) == {seq[i] : i \in DOMAIN seq}

Attempting ==
    /\ probe.stage = "handled"
    /\ probe.local.outcome \notin {"filtered", "rate_limited", "detect_failed"}

\* C13: the languages on_message sets out to translate into are the
\* configured targets without the source language when the source is a
\* configured target, and all configured targets when it is not: 'fr' gives
\* {en, es}, 'de' gives {en, fr, es}.
C13_TargetsOfSource ==
    Attempting =>
        LET source_lang == probe.local.source_lang
            attempted == Elements(probe.local.todo)
        IN  /\ source_lang \in TargetSet => attempted = TargetSet \ {source_lang}
            /\ source_lang \notin TargetSet => attempted = TargetSet
            /\ Len(probe.local.todo) = Cardinality(attempted)
            /\ probe.detected \in {"fr", "FR"} => attempted = {"en", "es"}
            /\ probe.detected = "de" => attempted = {"en", "fr", "es"}
            /\ probe.local.pc = "mymemory"

\* A message detected as German is being translated into all three targets.
C13_Witness ==
    /\ Attempting
    /\ probe.local.source_lang = "de"
    /\ Len(probe.local.todo) = 3
    /\ probe.local.pc = "mymemory"

\* C18: should_translate accepts a message exactly when its author is not a
\* bot, its trimmed text has 15 to 1500 characters, does not start with one of
\* the skipped prefixes and holds at least one alphabetic character; it
\* changes no state, and on_message does nothing with a rejected message.
Accepts(message) ==
    LET text == strip(message.content)
    IN  /\ ~message.bot
        /\ Len(text) >= 15 /\ Len(text) =< 1500
        /\ ~\E prefix \in SkippedPrefixes : startswith(text, prefix)
        /\ \E i \in DOMAIN text : text[i] \in Letters

C18_FilterAccepts ==
    /\ probe.stage \in {"filtered", "handled"}
           => probe.accepted = Accepts(probe.message)
    /\ probe.stage = "filtered"
           => /\ stats = InitStats
              /\ _cache = << >>
              /\ author_translation_count = [u \in Users |-> << >>]
              /\ author_cooldowns = [u \in Users |-> 0]
    /\ probe.stage = "handled"
           => /\ (probe.local.outcome = "filtered") = ~probe.accepted
              /\ ~probe.accepted => stats = InitStats /\ _cache = << >>

\* A padded text of exactly 15 letters after trimming was accepted.
C18_Witness ==
    /\ probe.stage = "filtered"
    /\ probe.accepted
    /\ Len(probe.message.content) > MIN_MESSAGE_LENGTH
    /\ Len(strip(probe.message.content)) = MIN_MESSAGE_LENGTH

\* ------------------------------------------------------------ claims: partial results
Progress(L) == Len(L.todo) + Len(L.translations)

\* Both backends failed for the language m was translating into.
LanguageFailed(m) ==
    /\ msgs[m].pc = "google"
    /\ msgs'[m] /= msgs[m]
    /\ \/ msgs'[m] = Idle
       \/ msgs'[m].pc /= "idle" /\ Progress(msgs'[m]) < Progress(msgs[m])

ReplyEnds(m) == msgs[m].pc = "reply" /\ msgs'[m] = Idle

\* C14: a language whose two backends fail costs exactly one error and does
\* not stop the loop: the languages after it are still attempted, the reply
\* holds exactly the languages that succeeded, and its delivery commits the
\* rate limiter; with the source a configured target and one of the two other
\* languages failing, the reply holds the one that succeeded.
C14_Reply ==
    /\ \A m \in Slots :
           msgs[m].pc = "reply"
               => /\ msgs[m].translations /= << >>
                  /\ msgs[m].todo = << >>
                  /\ \A i \in DOMAIN msgs[m].translations :
                         /\ msgs[m].translations[i][1] \in TargetSet
                         /\ msgs[m].translations[i][1] /= msgs[m].source_lang
    /\ lastReply.outcome /= "none"
           => /\ lastReply.langs >= 1
              /\ lastReply.langs + lastReply.failed = 2

C14_Step ==
    /\ \A m \in Slots :
           LanguageFailed(m)
               => /\ stats'.errors = stats.errors + 1
                  /\ Len(msgs[m].todo) > 1
                         => /\ msgs'[m].pc \in {"mymemory", "reply"}
                            /\ msgs'[m].pc = "mymemory"
                                   => msgs'[m].todo = Tail(msgs[m].todo)
                            /\ msgs'[m].pc = "reply"
                                   => Len(msgs'[m].translations)
                                          = Len(msgs[m].translations)
                                                + Len(msgs[m].todo) - 1
                  /\ (Len(msgs[m].todo) = 1 /\ msgs[m].translations /= << >>)
                         => /\ msgs'[m].pc = "reply"
                            /\ msgs'[m].translations = msgs[m].translations
    /\ \A m \in Slots :
           (ReplyEnds(m) /\ lastReply'.outcome = "delivered"
               /\ lastReply'.total /= lastReply.total)
               => /\ author_cooldowns'[msgs[m].author] = now
                  /\ author_translation_count'[msgs[m].author]
                         = Append(author_translation_count[msgs[m].author], now)
                  /\ stats'.translations_total
                         = stats.translations_total + Len(msgs[m].translations)
                  /\ stats'.errors = stats.errors
    /\ stats'.errors /= stats.errors
           => /\ stats'.errors = stats.errors + 1
              /\ \E m \in Slots : LanguageFailed(m) \/ ReplyEnds(m)

C14_PartialSuccess == [](C14_Reply) /\ [][C14_Step]_vars

\* One of the two languages failed, the reply with the other one was
\* delivered and committed, and one error was counted.
C14_Witness ==
    /\ lastReply.outcome = "delivered"
    /\ lastReply.failed = 1
    /\ lastReply.langs = 1
    /\ stats.errors = 1
    /\ stats.translations_total = 1
    /\ accepted[lastReply.author] /= << >>
    /\ author_cooldowns[lastReply.author] = now

\* C15: every reply that is not delivered, the missing-permission rejection
\* included, grows errors by one, is not retried, and leaves the rate limiter
\* and translations_total as they were.
C15_FailureStep ==
    \A m \in Slots :
        (ReplyEnds(m) /\ lastReply'.outcome \in {"forbidden", "http_error"})
            => /\ stats'.errors = stats.errors + 1
               /\ stats'.translations_total = stats.translations_total
               /\ author_cooldowns' = author_cooldowns
               /\ author_translation_count' = author_translation_count

C15_DeliveryFailuresCounted == [][C15_FailureStep]_vars

\* C16: translations_total is the sum of the languages of the delivered
\* replies; the rate limiter is committed in a step exactly when that step
\* delivers a reply of the user, once, so never for a message that was
\* filtered, denied, undetected, untranslated or whose reply failed.
C16_Totals ==
    /\ stats.translations_total = lastReply.total
    /\ \A u \in Users : Len(accepted[u]) = lastReply.delivered[u]
    /\ lastArrived.pc = "done"
           => lastArrived.outcome \in {"filtered", "rate_limited", "detect_failed",
                                        "no_langs", "no_translations"}

C16_CommitStep ==
    /\ lastReply'.delivered = lastReply.delivered
           => stats'.translations_total = stats.translations_total
    /\ \A u \in Users :
        /\ (Len(author_translation_count'[u]) > Len(author_translation_count[u]))
               = (lastReply'.delivered[u] = lastReply.delivered[u] + 1)
        /\ lastReply'.delivered[u] = lastReply.delivered[u] + 1
               => /\ author_translation_count'[u]
                         = Append(author_translation_count[u], now)
                  /\ author_cooldowns'[u] = now
                  /\ stats'.translations_total
                         = stats.translations_total + lastReply'.langs
        /\ lastReply'.delivered[u] = lastReply.delivered[u]
               => author_cooldowns'[u] = author_cooldowns[u]
        /\ lastReply'.delivered[u] \in {lastReply.delivered[u],
                                        lastReply.delivered[u] + 1}

C16_CountsMatchDeliveries == [](C16_Totals) /\ [][C16_CommitStep]_vars

\* A reply with two languages was delivered, and replies of other messages
\* failed or were never sent.
C16_Witness ==
    /\ lastReply.outcome /= "delivered"
    /\ lastReply.total = 2
    /\ stats.translations_total = 2
    /\ \E u \in Users : lastReply.delivered[u] = 1 /\ Len(accepted[u]) = 1
    /\ arrived = NumMessages
    /\ \A m \in Slots : msgs[m].pc = "idle"

\* C17: no failure in the handling of a message (detection, backends, reply)
\* leaves on_message as an exception.
C17_NothingEscapes ==
    /\ lastReply.outcome /= "raised"
    /\ lastArrived.outcome /= "raised"

====
